---- MODULE Spec2Model ----
(***************************************************************************)
(* Model of steamlitstuff.py: the interactive profitability model.         *)
(*                                                                         *)
(* The script is re-executed from top to bottom every time a sidebar       *)
(* slider changes.  One run reads the nine sliders, evaluates the three    *)
(* profit curves over np.linspace(0, 1, 200) and derives the y-axis limits *)
(* from the plotted data.                                                  *)
(*                                                                         *)
(* Arithmetic.  The script computes in binary64.  The model computes the   *)
(* same expressions in exact rational arithmetic:                          *)
(*   - a scalar read from a slider, and a grid point, is a fraction        *)
(*     <<n, d>> with d > 0;                                                *)
(*   - every computed quantity is a wide number <<w, a, b>> denoting       *)
(*     w + a/GridSq + b/(GridSq*Fine), 0 <= a < GridSq, 0 <= b < Fine,     *)
(*     which is unique, so that = on wide numbers is numeric equality.     *)
(* Every product in the script has a slider value, a grid point or N as    *)
(* one factor, so the only product needed is wide-number times fraction.   *)
(* np.exp is modelled to three decimal places.                             *)
(***************************************************************************)
EXTENDS Integers, Sequences, FiniteSets, TLC

VARIABLES session,
          pi, C_op, H, v, N, a_star, beta, kappa, delta,
          F, P_base, P_endh, P_dup,
          p_min, p_max, padding, ylim, exc

params == <<pi, C_op, H, v, N, a_star, beta, kappa, delta>>
curves == <<F, P_base, P_endh, P_dup>>
limits == <<p_min, p_max, padding, ylim, exc>>
vars == <<session, params, curves, limits>>

\* A variable of the script is unbound until a run binds it.
None == <<>>
Ran  == F # None

(***************************************************************************)
(* The sliders: (min, max, value, step) of each st.sidebar.slider call.    *)
(* A slider is exercised at its minimum and at its initial value; the      *)
(* duplication penalty at 0.00, 0.10, ... up to DeltaSteps tenths.         *)
(***************************************************************************)
DeltaSteps == 1

PiValues    == {<<0, 100>>, <<23, 100>>}
COpValues   == {<<0, 100>>, <<20, 100>>}
HValues     == {<<0, 1>>, <<10000000, 1>>}
VValues     == {<<0, 1>>, <<5000, 1>>}
NValues     == {1, 500}
AStarValues == {<<0, 10>>, <<10, 10>>}
BetaValues  == {<<1, 10>>, <<10, 10>>}
KappaValues == {<<1, 10>>, <<10, 10>>}
DeltaValues == {<<10 * k, 100>> : k \in 0 .. DeltaSteps}

Defaults ==
  [pi |-> <<23, 100>>, C_op |-> <<20, 100>>, H |-> <<10000000, 1>>,
   v |-> <<5000, 1>>, N |-> 500, a_star |-> <<10, 10>>, beta |-> <<10, 10>>,
   kappa |-> <<10, 10>>, delta |-> <<10, 100>>]

(***************************************************************************)
(* Fractions.                                                              *)
(***************************************************************************)
FracMul(x, y) == <<x[1] * y[1], x[2] * y[2]>>
FracNeg(x)    == <<-x[1], x[2]>>

(***************************************************************************)
(* Wide numbers.  A third digit below zero marks the three values of       *)
(* binary64 that are not numbers of the line: nan, -inf and +inf.          *)
(***************************************************************************)
GridPoints == 200
GridSq == (GridPoints - 1) * (GridPoints - 1)
Fine   == 1000000

NaN    == <<0, 0, -1>>
NegInf == <<0, 0, -2>>
PosInf == <<0, 0, -3>>
IsFinite(x) == x[3] >= 0

Zero == <<0, 0, 0>>
One  == <<1, 0, 0>>

Norm(w, a, b) ==
  LET a2 == a + (b \div Fine)
  IN  <<w + (a2 \div GridSq), a2 % GridSq, b % Fine>>

Neg(x) ==
  IF IsFinite(x) THEN Norm(-x[1], -x[2], -x[3])
  ELSE IF x = NegInf THEN PosInf
  ELSE IF x = PosInf THEN NegInf
  ELSE NaN

Add(x, y) ==
  IF IsFinite(x) /\ IsFinite(y) THEN Norm(x[1] + y[1], x[2] + y[2], x[3] + y[3])
  ELSE IF x = NaN \/ y = NaN THEN NaN
  ELSE IF IsFinite(x) THEN y
  ELSE IF IsFinite(y) \/ x = y THEN x
  ELSE NaN

Sub(x, y) ==
  IF IsFinite(x) /\ IsFinite(y) THEN Norm(x[1] - y[1], x[2] - y[2], x[3] - y[3])
  ELSE Add(x, Neg(y))

Less(x, y) ==
  IF IsFinite(x) /\ IsFinite(y)
  THEN \/ x[1] < y[1]
       \/ x[1] = y[1] /\ x[2] < y[2]
       \/ x[1] = y[1] /\ x[2] = y[2] /\ x[3] < y[3]
  ELSE /\ x # NaN /\ y # NaN /\ x # y
       /\ x = NegInf \/ y = PosInf
Leq(x, y) == x # NaN /\ y # NaN /\ (x = y \/ Less(x, y))

\* x * m / d for integers m and d > 0.  The remainder of each digit is
\* carried into the next lower one; the quotients of a run leave none.
Times(x, m, d) ==
  IF IsFinite(x)
  THEN LET tw == (x[1] % d) * m
           hw == (x[1] \div d) * m + (tw \div d)
           ta == x[2] * m + (tw % d) * GridSq
           tb == x[3] * m + (ta % d) * Fine
       IN  Norm(hw, ta \div d, tb \div d)
  ELSE IF x = NaN \/ m = 0 THEN NaN
  ELSE IF m > 0 THEN x
  ELSE Neg(x)

Scale(f, x) == Times(x, f[1], f[2])
Num(f)      == Times(<<f[1], 0, 0>>, 1, f[2])
OneMinus(f) == <<f[2] - f[1], f[2]>>

\* numpy's true_divide of an array by the Python int n: a zero divisor gives
\* inf or nan (with a RuntimeWarning), it does not raise.
TrueDivide(x, n) ==
  IF n > 0 THEN Times(x, 1, n)
  ELSE IF n < 0 THEN Times(x, -1, -n)
  ELSE IF ~IsFinite(x) \/ x = Zero THEN NaN
  ELSE IF Less(Zero, x) THEN PosInf
  ELSE NegInf

(***************************************************************************)
(* np.exp(x) for x = -n/100 <= 0, to three decimal places: e^-j for the    *)
(* whole part by repeated multiplication, e^-(r/100) for the rest by its   *)
(* Taylor series.                                                          *)
(***************************************************************************)
RECURSIVE ExpWhole(_)
ExpWhole(j) ==
  IF j = 0 THEN 10000
  ELSE IF j > 12 THEN 0
  ELSE (ExpWhole(j - 1) * 3679 + 5000) \div 10000

RECURSIVE ExpTerm(_, _)
ExpTerm(r, k) ==
  IF k = 0 THEN 1000000 ELSE (ExpTerm(r, k - 1) * r) \div (100 * k)

ExpRest(r) ==
  ExpTerm(r, 0) - ExpTerm(r, 1) + ExpTerm(r, 2) - ExpTerm(r, 3)
    + ExpTerm(r, 4) - ExpTerm(r, 5) + ExpTerm(r, 6) - ExpTerm(r, 7)

ExpNegMilli(n) ==
  ((((ExpRest(n % 100) + 50) \div 100) * ExpWhole(n \div 100)) \div 10000 + 5) \div 10

exp(x) == Num(<<ExpNegMilli((-x[1] * 100) \div x[2]), 1000>>)

(***************************************************************************)
(* Model calculations (lines 37-48).  q is the script's nine parameters,   *)
(* which the three lambdas read as globals.                                *)
(***************************************************************************)
Globals ==
  [pi |-> pi, C_op |-> C_op, H |-> H, v |-> v, N |-> N, a_star |-> a_star,
   beta |-> beta, kappa |-> kappa, delta |-> delta]

c(q, a) == Num(FracMul(FracMul(<<1, 2>>, q.kappa), FracMul(a, a)))
p(q, a) == Sub(One, exp(FracNeg(FracMul(q.beta, a))))
C_op_F(q, Fi) == Add(Num(q.H), Times(Scale(OneMinus(Fi), Num(q.v)), q.N, 1))


\* np.linspace(0, 1, num, endpoint=False): the stop value left out.
linspace_open(num) == [i \in 0 .. num - 1 |-> <<i, num>>]

linspace(num) == [i \in 0 .. num - 1 |-> <<i, num - 1>>]

\* p(a_star) * pi - c(a_star)
Franchised(q) == Sub(Scale(q.pi, p(q, q.a_star)), c(q, q.a_star))


\* The two weights exchanged.
BaseCurveSwapped(q, grid) ==
  LET own == Sub(Num(q.pi), Num(q.C_op))
      fr  == Franchised(q)
  IN  [i \in DOMAIN grid |->
         Add(Scale(grid[i], own), Scale(OneMinus(grid[i]), fr))]

\* line 46.  The scalar factors are computed once and broadcast over the grid.
BaseCurve(q, grid) ==
  LET own == Sub(Num(q.pi), Num(q.C_op))
      fr  == Franchised(q)
  IN  [i \in DOMAIN grid |->
         Add(Scale(OneMinus(grid[i]), own), Scale(grid[i], fr))]


\* The company-operated margin clamped with np.maximum(..., 0), which the
\* comment on line 45 speaks of.
EndhCurveClamped(q, grid) ==
  LET fr == Franchised(q)
  IN  [i \in DOMAIN grid |->
         Add(Scale(OneMinus(grid[i]),
                   LET m == Sub(Num(q.pi), TrueDivide(C_op_F(q, grid[i]), q.N))
                   IN  IF Less(m, Zero) THEN Zero ELSE m),
             Scale(grid[i], fr))]

\* The per-outlet cost outside the (1 - F) weight: (1-F)*pi - C_op_F(F)/N.
EndhCurveUnweighted(q, grid) ==
  LET fr == Franchised(q)
  IN  [i \in DOMAIN grid |->
         Add(Sub(Scale(OneMinus(grid[i]), Num(q.pi)),
                 TrueDivide(C_op_F(q, grid[i]), q.N)),
             Scale(grid[i], fr))]

\* line 47
EndhCurve(q, grid) ==
  LET fr == Franchised(q)
  IN  [i \in DOMAIN grid |->
         Add(Scale(OneMinus(grid[i]),
                   Sub(Num(q.pi), TrueDivide(C_op_F(q, grid[i]), q.N))),
             Scale(grid[i], fr))]


\* The penalty added.
DupCurvePlus(q, grid, endh) ==
  [i \in DOMAIN grid |->
     Add(endh[i], Scale(OneMinus(grid[i]), Scale(grid[i], Num(q.delta))))]

\* The penalty without its (1 - F) factor.
DupCurveLinear(q, grid, endh) ==
  [i \in DOMAIN grid |-> Sub(endh[i], Scale(grid[i], Num(q.delta)))]

\* line 48
DupCurve(q, grid, endh) ==
  [i \in DOMAIN grid |->
     Sub(endh[i], Scale(OneMinus(grid[i]), Scale(grid[i], Num(q.delta))))]

(***************************************************************************)
(* Dynamic y-axis limits (lines 75-78).                                    *)
(***************************************************************************)
concatenate(arrs) ==
  [j \in 0 .. Len(arrs) * GridPoints - 1 |->
     arrs[(j \div GridPoints) + 1][j % GridPoints]]

\* ndarray.min and ndarray.max: a nan among the values is the result.
Min2(x, y) == IF x = NaN \/ y = NaN THEN NaN ELSE IF Less(y, x) THEN y ELSE x
Max2(x, y) == IF x = NaN \/ y = NaN THEN NaN ELSE IF Less(x, y) THEN y ELSE x

\* The reductions, by halves.
RECURSIVE amin(_, _, _)
amin(arr, lo, hi) ==
  IF lo = hi THEN arr[lo]
  ELSE LET mid == (lo + hi) \div 2
       IN  Min2(amin(arr, lo, mid), amin(arr, mid + 1, hi))

RECURSIVE amax(_, _, _)
amax(arr, lo, hi) ==
  IF lo = hi THEN arr[lo]
  ELSE LET mid == (lo + hi) \div 2
       IN  Max2(amax(arr, lo, mid), amax(arr, mid + 1, hi))


\* The limits taken from the baseline curve alone.
all_p_values_base(base, endh, dup) == concatenate(<<base, base, base>>)

\* line 75
all_p_values(base, endh, dup) == concatenate(<<base, endh, dup>>)


\* A span of 1 in place of an empty one.
PaddingFallback(lo, hi) ==
  IF lo = hi THEN Scale(<<1, 2>>, One) ELSE Scale(<<1, 10>>, Sub(hi, lo))

\* line 77
Padding(lo, hi) == Scale(<<1, 10>>, Sub(hi, lo))

\* Axes.set_ylim refuses limits that are nan or inf with a ValueError.
set_ylim(bottom, top) ==
  IF IsFinite(bottom) /\ IsFinite(top) THEN "none" ELSE "ValueError"

(***************************************************************************)
(* One run of the script.                                                  *)
(***************************************************************************)
ReadSliders ==
  /\ pi' = session'.pi
  /\ C_op' = session'.C_op
  /\ H' = session'.H
  /\ v' = session'.v
  /\ N' = session'.N
  /\ a_star' = session'.a_star
  /\ beta' = session'.beta
  /\ kappa' = session'.kappa
  /\ delta' = session'.delta


\* The baseline curve kept from the run before.
CalculateCached ==
  /\ F' = linspace(GridPoints)
  /\ P_base' = IF Ran THEN P_base ELSE BaseCurve(Globals', F')
  /\ P_endh' = EndhCurve(Globals', F')
  /\ P_dup' = DupCurve(Globals', F', P_endh')

Calculate ==
  /\ F' = linspace(GridPoints)
  /\ P_base' = BaseCurve(Globals', F')
  /\ P_endh' = EndhCurve(Globals', F')
  /\ P_dup' = DupCurve(Globals', F', P_endh')

Plot ==
  /\ p_min' = amin(all_p_values(P_base', P_endh', P_dup'), 0, 3 * GridPoints - 1)
  /\ p_max' = amax(all_p_values(P_base', P_endh', P_dup'), 0, 3 * GridPoints - 1)
  /\ padding' = Padding(p_min', p_max')
  /\ ylim' = <<Sub(p_min', padding'), Add(p_max', padding')>>
  /\ exc' = set_ylim(ylim'[1], ylim'[2])

Run == ReadSliders /\ Calculate /\ Plot

\* A new session: the sliders hold their initial values and the script has
\* not run yet.
Init ==
  /\ session = Defaults
  /\ pi = None /\ C_op = None /\ H = None /\ v = None /\ N = None
  /\ a_star = None /\ beta = None /\ kappa = None /\ delta = None
  /\ F = None /\ P_base = None /\ P_endh = None /\ P_dup = None
  /\ p_min = None /\ p_max = None /\ padding = None /\ ylim = None
  /\ exc = "none"

\* The first run, when the page is opened.
Load == ~Ran /\ UNCHANGED session /\ Run

(***************************************************************************)
(* Moving a slider stores its new value in the session and reruns the      *)
(* script.                                                                 *)
(***************************************************************************)
Slide_pi ==
  /\ Ran
  /\ \E val \in PiValues \ {session.pi} :
       session' = [session EXCEPT !.pi = val] /\ Run
Slide_C_op ==
  /\ Ran
  /\ \E val \in COpValues \ {session.C_op} :
       session' = [session EXCEPT !.C_op = val] /\ Run
Slide_H ==
  /\ Ran
  /\ \E val \in HValues \ {session.H} :
       session' = [session EXCEPT !.H = val] /\ Run
Slide_v ==
  /\ Ran
  /\ \E val \in VValues \ {session.v} :
       session' = [session EXCEPT !.v = val] /\ Run
Slide_N ==
  /\ Ran
  /\ \E val \in NValues \ {session.N} :
       session' = [session EXCEPT !.N = val] /\ Run
Slide_a_star ==
  /\ Ran
  /\ \E val \in AStarValues \ {session.a_star} :
       session' = [session EXCEPT !.a_star = val] /\ Run
Slide_beta ==
  /\ Ran
  /\ \E val \in BetaValues \ {session.beta} :
       session' = [session EXCEPT !.beta = val] /\ Run
Slide_kappa ==
  /\ Ran
  /\ \E val \in KappaValues \ {session.kappa} :
       session' = [session EXCEPT !.kappa = val] /\ Run
Slide_delta ==
  /\ Ran
  /\ \E val \in DeltaValues \ {session.delta} :
       session' = [session EXCEPT !.delta = val] /\ Run

Next ==
  \/ Load
  \/ Slide_pi
  \/ Slide_C_op
  \/ Slide_H
  \/ Slide_v
  \/ Slide_N
  \/ Slide_a_star
  \/ Slide_beta
  \/ Slide_kappa
  \/ Slide_delta

Spec == Init /\ [][Next]_vars

(***************************************************************************)
(* The calculation handed an outlet count below the slider's minimum: the  *)
(* case of a caller other than the sidebar.  Lines 37-78 run on it as on   *)
(* any other value.                                                        *)
(***************************************************************************)
OutOfDomainN == {0}

Caller_N ==
  /\ Ran
  /\ \E val \in OutOfDomainN \ {session.N} :
       session' = [session EXCEPT !.N = val] /\ Run

NextCaller ==
  \/ Next
  \/ Caller_N

SpecCaller == Init /\ [][NextCaller]_vars

TypeOK ==
  Ran => /\ DOMAIN F = 0 .. GridPoints - 1
         /\ \A i \in DOMAIN F :
              IsFinite(P_base[i]) /\ IsFinite(P_endh[i]) /\ IsFinite(P_dup[i])
         /\ IsFinite(ylim[1]) /\ IsFinite(ylim[2])

(***************************************************************************)
(* The quantities the properties are stated in: the helper functions of    *)
(* the specification, over the parameters of the latest run, and the       *)
(* order of fractions.                                                     *)
(***************************************************************************)
effort_cost(a) == Times(Scale(a, Scale(a, Num(kappa))), 1, 2)
success_probability(a) == Sub(One, exp(FracNeg(FracMul(beta, a))))
total_operational_cost(Fi) ==
  Add(Num(H), Scale(OneMinus(Fi), Times(Num(v), N, 1)))
FranchisedProfit ==
  Sub(Scale(pi, success_probability(a_star)), effort_cost(a_star))

FracEq(x, y)   == x[1] * y[2] = y[1] * x[2]
FracLess(x, y) == x[1] * y[2] < y[1] * x[2]
Last == GridPoints - 1

C2_DupFormula ==
  Ran => \A i \in DOMAIN F :
           P_dup[i] = Sub(P_endh[i], Scale(delta, Scale(F[i], Num(OneMinus(F[i])))))

\* C2 happens: a run with a penalty that separates the two curves.
C2_Witness == Ran /\ delta[1] > 0 /\ \E i \in DOMAIN F : P_dup[i] # P_endh[i]

\* C3 as stated: for every delta in [0,1], P_dup[i] <= P_endh[i] at every
\* index, with equality at the first and the last index and at no other.
C3_Original ==
  Ran => \A i \in DOMAIN F :
           /\ Leq(P_dup[i], P_endh[i])
           /\ (P_dup[i] = P_endh[i]) <=> (i = 0 \/ i = Last)

\* C3 as amended: P_dup[i] <= P_endh[i] at every index and the two are equal
\* at the first and the last index; they are equal at no other index when
\* delta > 0, and at every index when delta = 0.
C3_DupBelowEndh ==
  Ran => \A i \in DOMAIN F :
           /\ Leq(P_dup[i], P_endh[i])
           /\ (i = 0 \/ i = Last) => P_dup[i] = P_endh[i]
           /\ (delta[1] > 0 /\ i # 0 /\ i # Last) => P_dup[i] # P_endh[i]
           /\ delta[1] = 0 => P_dup[i] = P_endh[i]

\* C3 happens: a run with delta > 0, the curves apart inside the grid.
C3_Witness ==
  /\ Ran /\ delta[1] > 0
  /\ P_dup[0] = P_endh[0] /\ P_dup[Last] = P_endh[Last]
  /\ Less(P_dup[1], P_endh[1])

\* C5: at the first grid point (F = 0), P_base[0] = pi - C_op and
\* P_endh[0] = pi - (H + v*N)/N.
C5_AtZero ==
  Ran => /\ FracEq(F[0], <<0, 1>>)
         /\ P_base[0] = Sub(Num(pi), Num(C_op))
         /\ P_endh[0] = Sub(Num(pi), Times(Add(Num(H), Times(Num(v), N, 1)), 1, N))

\* C5 happens: a run with a company-operated cost and an overhead.
C5_Witness ==
  /\ Ran /\ C_op[1] > 0 /\ H[1] > 0 /\ v[1] > 0 /\ N > 1
  /\ P_base[0] # P_endh[0]

\* C10: the grid has exactly 200 points, from 0.0 to 1.0, strictly
\* increasing, and each curve has one value per grid point, in grid order:
\* curve[i] is the curve's value at grid[i].
C10_Grid ==
  Ran => /\ DOMAIN F = 0 .. 199
         /\ FracEq(F[0], <<0, 1>>)
         /\ FracEq(F[199], <<1, 1>>)
         /\ \A i \in 0 .. 198 : FracLess(F[i], F[i + 1])
         /\ DOMAIN P_base = DOMAIN F
         /\ DOMAIN P_endh = DOMAIN F
         /\ DOMAIN P_dup = DOMAIN F
         /\ \A i \in DOMAIN F :
              /\ P_base[i] = Add(Scale(OneMinus(F[i]), Sub(Num(pi), Num(C_op))),
                                 Scale(F[i], FranchisedProfit))
              /\ P_endh[i] =
                   Add(Scale(OneMinus(F[i]),
                             Sub(Num(pi),
                                 Times(total_operational_cost(F[i]), 1, N))),
                       Scale(F[i], FranchisedProfit))
              /\ P_dup[i] = Sub(P_endh[i], Scale(OneMinus(F[i]), Scale(F[i], Num(delta))))

\* C10 happens: a run whose base curve is not constant, so that the order
\* of its values matters.
C10_Witness == Ran /\ P_base[0] # P_base[199] /\ P_base[1] # P_base[0]

Values == {P_base[i] : i \in DOMAIN F} \cup {P_endh[i] : i \in DOMAIN F}
            \cup {P_dup[i] : i \in DOMAIN F}

\* C4: at the last grid point (F = 1), P_base[-1] and P_endh[-1] are equal
\* to each other and to success_probability(a*)*pi - effort_cost(a*), and a
\* change of H, v or C_op alone leaves the value as it was.
C4_AtOne ==
  /\ [](Ran => /\ FracEq(F[Last], <<1, 1>>)
               /\ P_base[Last] = P_endh[Last]
               /\ P_base[Last] = FranchisedProfit)
  /\ [][(/\ Ran
         /\ pi' = pi /\ N' = N /\ a_star' = a_star
         /\ beta' = beta /\ kappa' = kappa /\ delta' = delta)
        => (P_base'[Last] = P_base[Last] /\ P_endh'[Last] = P_endh[Last])]_vars

\* C4 happens: runs with H, v and C_op moved away from their initial values,
\* the franchised profit not zero.
C4_Witness ==
  /\ Ran /\ H[1] = 0 /\ v[1] = 0 /\ C_op[1] = 0
  /\ P_base[Last] = P_endh[Last] /\ P_base[Last] # Zero

\* C6: with p_min and p_max the least and the greatest value of the three
\* curves together and padding = (p_max - p_min)*0.1, the limits
\* (p_min - padding, p_max + padding) contain every value of every curve.
C6_Bounds ==
  Ran => /\ p_min \in Values /\ \A x \in Values : Leq(p_min, x)
         /\ p_max \in Values /\ \A x \in Values : Leq(x, p_max)
         /\ padding = Times(Sub(p_max, p_min), 1, 10)
         /\ ylim = <<Sub(p_min, padding), Add(p_max, padding)>>
         /\ \A x \in Values : Leq(ylim[1], x) /\ Leq(x, ylim[2])

\* C6 happens: a run whose curves differ, with room left below the least
\* value and above the greatest.
C6_Witness ==
  /\ Ran /\ Less(ylim[1], p_min) /\ Less(p_max, ylim[2])
  /\ \E i \in DOMAIN F : P_dup[i] = p_min /\ P_dup[i] # P_base[i]

Degenerate ==
  pi[1] = 0 /\ C_op[1] = 0 /\ H[1] = 0 /\ v[1] = 0 /\ a_star[1] = 0

C9_NoCrossPassState ==
  Ran => /\ Globals = session
         /\ F = [i \in 0 .. 199 |-> <<i, 199>>]
         /\ P_base = BaseCurve(Globals, F)
         /\ P_endh = EndhCurve(Globals, F)
         /\ P_dup = DupCurve(Globals, F, P_endh)
         /\ p_min = amin(concatenate(<<P_base, P_endh, P_dup>>), 0, 599)
         /\ p_max = amax(concatenate(<<P_base, P_endh, P_dup>>), 0, 599)
         /\ ylim = <<Sub(p_min, Padding(p_min, p_max)),
                     Add(p_max, Padding(p_min, p_max))>>

\* C9 happens: a run after several parameter changes.
C9_Witness ==
  /\ Ran /\ session.pi # Defaults.pi /\ session.H # Defaults.H
  /\ session.delta # Defaults.delta /\ session.N # Defaults.N

====
